---- MODULE Spec2Model ----
(***************************************************************************)
(* Model of the Chess class of src/routes/+page.svelte: the board state,   *)
(* the move generator (getLegal), the check oracle (isInCheck, isAttacked),*)
(* the move applier (movePiece) and the input handlers that drive them     *)
(* (_onMouseDown, _onMouseMove, _onMouseUp, restart).                      *)
(*                                                                         *)
(* Ranks and files are 0..7 as in the source: rank 0 is black's back row,  *)
(* rank 7 is white's, file 0 is the a-file.  A piece is a one-letter       *)
(* string, upper case for white, "" for an empty square.                   *)
(***************************************************************************)
EXTENDS Integers, Sequences, FiniteSets, TLC

VARIABLES
    positions,        \* this.positions: rank -> file -> piece
    kingMoved,        \* this.kingMoved: colour -> BOOLEAN
    rookMoved,        \* this.rookMoved: colour -> side (a, h) -> BOOLEAN
    currentDrag,      \* this.currentDrag: the drag in progress, or nullDrag
    enPassantTarget,  \* this.enPassantTarget: a square, or null
    turn,             \* this.turn: "w" or "b"
    gameOver,         \* this.gameOver
    gameOverType,     \* this.gameOverType: "checkmate", "stalemate" or nullType
    gameOverColor,    \* this.gameOverColor: the affected king's square, or null
    lastMove,         \* history: the arguments of the last movePiece of this game
    castled,          \* history: colour -> a king of it has castled in this game
    script,           \* input bound: the moves of the opening still to be played
    free,             \* input bound: presses the user may still try after the opening
    restarts          \* input bound: restarts so far

vars == <<positions, kingMoved, rookMoved, currentDrag, enPassantTarget, turn,
          gameOver, gameOverType, gameOverColor, lastMove, castled, script, free,
          restarts>>

engine == <<positions, kingMoved, rookMoved, enPassantTarget, turn,
            gameOver, gameOverType, gameOverColor>>

(***************************************************************************)
(* Bounds of the exploration.                                              *)
(***************************************************************************)
MaxFree == 1
MaxRestarts == 2

\* the files of the pieces the user presses after the opening
FreeFiles == 0..3

(***************************************************************************)
(* Values.                                                                 *)
(***************************************************************************)
Coords == 0..7

\* Math.floor(y / cell), Math.floor(x / cell) of a drop: also off the board
DropCoords == -1..8

Sq(r0, f0) == [r |-> r0, f |-> f0]

Squares == {Sq(r0, f0) : r0 \in Coords, f0 \in Coords}

\* JavaScript null, for a field that otherwise holds a square
null == [r |-> -1, f |-> -1]

\* JavaScript null, for gameOverType
nullType == "null"

\* JavaScript null, for currentDrag
nullDrag == [from |-> null, type |-> ""]

\* no movePiece yet in this game
nullMove == [from |-> null, to |-> null, t |-> ""]

initialRows ==
    << <<"r", "n", "b", "q", "k", "b", "n", "r">>,
       <<"p", "p", "p", "p", "p", "p", "p", "p">>,
       <<"", "", "", "", "", "", "", "">>,
       <<"", "", "", "", "", "", "", "">>,
       <<"", "", "", "", "", "", "", "">>,
       <<"", "", "", "", "", "", "", "">>,
       <<"P", "P", "P", "P", "P", "P", "P", "P">>,
       <<"R", "N", "B", "Q", "K", "B", "N", "R">> >>

initialPositions == [r0 \in Coords |-> [f0 \in Coords |-> initialRows[r0 + 1][f0 + 1]]]

\* p === p.toUpperCase()  (true of the empty string too)
isUpper(p) == p \in {"", "R", "N", "B", "Q", "K", "P"}

\* p.toLowerCase()
toLowerCase(p) ==
    CASE p \in {"r", "R"} -> "r"
      [] p \in {"n", "N"} -> "n"
      [] p \in {"b", "B"} -> "b"
      [] p \in {"q", "Q"} -> "q"
      [] p \in {"k", "K"} -> "k"
      [] p \in {"p", "P"} -> "p"
      [] OTHER -> ""

\* p === p.toUpperCase() ? "w" : "b"
colorOf(p) == IF isUpper(p) THEN "w" ELSE "b"

other(color) == IF color = "w" THEN "b" ELSE "w"

Abs(n) == IF n < 0 THEN -n ELSE n

\* the engine state as one value, so that the generator and the applier can
\* be applied to hypothetical states as well
This ==
    [positions |-> positions, kingMoved |-> kingMoved, rookMoved |-> rookMoved,
     enPassantTarget |-> enPassantTarget, turn |-> turn, gameOver |-> gameOver,
     gameOverType |-> gameOverType, gameOverColor |-> gameOverColor]

\* the state the constructor builds
initialState ==
    [positions |-> initialPositions,
     kingMoved |-> [w |-> FALSE, b |-> FALSE],
     rookMoved |-> [w |-> [a |-> FALSE, h |-> FALSE], b |-> [a |-> FALSE, h |-> FALSE]],
     enPassantTarget |-> null, turn |-> "w", gameOver |-> FALSE,
     gameOverType |-> nullType, gameOverColor |-> null]

(***************************************************************************)
(* findKing                                                                *)
(***************************************************************************)
findKing(s, color) ==
    LET k == IF color = "w" THEN "K" ELSE "k"
        ks == {q \in Squares : s.positions[q.r][q.f] = k}
    IN IF ks = {} THEN Sq(0, 0)
       ELSE CHOOSE q \in ks : \A o \in ks : q.r * 8 + q.f <= o.r * 8 + o.f

(***************************************************************************)
(* getLegal: the movement patterns (everything before the check filter     *)
(* except castling, which is generated only when ignoreCheck is false).    *)
(***************************************************************************)
inB(nr, nf) == nr >= 0 /\ nr < 8 /\ nf >= 0 /\ nf < 8

isEmp(b, nr, nf) == b[nr][nf] = ""

\* isEnemy without the comparison of the colours
isEnemyAnyPiece(b, type, nr, nf) == b[nr][nf] # ""


isEnemy(b, type, nr, nf) ==
    b[nr][nf] # "" /\ (isUpper(b[nr][nf]) # isUpper(type))

pawnMoves(s, r, f, type) ==
    LET b == s.positions
        dir == IF type = "P" THEN -1 ELSE 1
        sr == IF type = "P" THEN 6 ELSE 1
        one == r + dir
        two == r + dir * 2
        ept == s.enPassantTarget
    IN (IF inB(one, f) /\ isEmp(b, one, f) THEN {Sq(one, f)} ELSE {})
       \cup
       (IF r = sr /\ inB(two, f) /\ isEmp(b, one, f) /\ isEmp(b, two, f)
        THEN {Sq(two, f)} ELSE {})
       \cup
       {Sq(r + dir, f + df) : df \in
           {d \in {-1, 1} :
               inB(r + dir, f + d)
               /\ (isEnemy(b, type, r + dir, f + d)
                   \/ (ept # null /\ ept.r = r + dir /\ ept.f = f + d))}}

\* knightOffsets without the four jumps of two ranks
knightOffsetsWide == {<<1, 2>>, <<1, -2>>, <<-1, 2>>, <<-1, -2>>}


knightOffsets ==
    {<<2, 1>>, <<2, -1>>, <<-2, 1>>, <<-2, -1>>, <<1, 2>>, <<1, -2>>, <<-1, 2>>, <<-1, -2>>}

knightMoves(s, r, f, type) ==
    LET b == s.positions
    IN {Sq(r + d[1], f + d[2]) : d \in
           {o \in knightOffsets :
               inB(r + o[1], f + o[2])
               /\ (isEmp(b, r + o[1], f + o[2]) \/ isEnemy(b, type, r + o[1], f + o[2]))}}

kingOffsets == {<<dr, df>> \in (-1..1) \X (-1..1) : dr # 0 \/ df # 0}

kingSteps(s, r, f, type) ==
    LET b == s.positions
    IN {Sq(r + d[1], f + d[2]) : d \in
           {o \in kingOffsets :
               inB(r + o[1], f + o[2])
               /\ (isEmp(b, r + o[1], f + o[2]) \/ isEnemy(b, type, r + o[1], f + o[2]))}}

\* the while loop of one direction, entered at (nr, nf)
RECURSIVE slide(_, _, _, _, _, _)
slide(b, type, nr, nf, dr, df) ==
    IF ~inB(nr, nf) THEN {}
    ELSE IF isEmp(b, nr, nf)
         THEN {Sq(nr, nf)} \cup slide(b, type, nr + dr, nf + df, dr, df)
         ELSE IF isEnemy(b, type, nr, nf) THEN {Sq(nr, nf)} ELSE {}

slideDirs(lower) ==
    (IF lower \in {"b", "q"} THEN {<<1, 1>>, <<1, -1>>, <<-1, 1>>, <<-1, -1>>} ELSE {})
    \cup
    (IF lower \in {"r", "q"} THEN {<<1, 0>>, <<-1, 0>>, <<0, 1>>, <<0, -1>>} ELSE {})

slideMoves(s, r, f, type) ==
    UNION {slide(s.positions, type, r + d[1], f + d[2], d[1], d[2]) :
              d \in slideDirs(toLowerCase(type))}

\* getLegal(from, type, true)
patternMoves(s, from, type) ==
    LET lower == toLowerCase(type)
    IN CASE lower = "p" -> pawnMoves(s, from.r, from.f, type)
         [] lower = "n" -> knightMoves(s, from.r, from.f, type)
         [] lower = "k" -> kingSteps(s, from.r, from.f, type)
         [] OTHER -> slideMoves(s, from.r, from.f, type)

(***************************************************************************)
(* isInCheck, isAttacked                                                   *)
(***************************************************************************)
isAttacked(s, r, f, attackerColor) ==
    \E i \in Coords, j \in Coords :
        LET p == s.positions[i][j]
        IN /\ p # ""
           /\ colorOf(p) = attackerColor
           /\ Sq(r, f) \in patternMoves(s, Sq(i, j), p)

isInCheck(s, color) ==
    LET k == findKing(s, color)
        enemy == other(color)
    IN \E r \in Coords, f \in Coords :
        LET p == s.positions[r][f]
        IN /\ p # ""
           /\ colorOf(p) = enemy
           /\ k \in patternMoves(s, Sq(r, f), p)

(***************************************************************************)
(* getLegal: castling and the king-safety filter                           *)
(***************************************************************************)
castlingMoves(s, r, f, type) ==
    LET b == s.positions
        color == IF type = "K" THEN "w" ELSE "b"
        enemy == other(color)
    IN IF ~s.kingMoved[color] /\ ~isInCheck(s, color)
       THEN (IF /\ ~s.rookMoved[color].h
                /\ inB(r, f + 2)
                /\ isEmp(b, r, f + 1)
                /\ isEmp(b, r, f + 2)
                /\ ~isAttacked(s, r, f + 1, enemy)
                /\ ~isAttacked(s, r, f + 2, enemy)
             THEN {Sq(r, f + 2)} ELSE {})
            \cup
            (IF /\ ~s.rookMoved[color].a
                /\ inB(r, f - 3)
                /\ isEmp(b, r, f - 1)
                /\ isEmp(b, r, f - 2)
                /\ isEmp(b, r, f - 3)
                /\ ~isAttacked(s, r, f - 1, enemy)
                /\ ~isAttacked(s, r, f - 2, enemy)
             THEN {Sq(r, f - 2)} ELSE {})
       ELSE {}

\* the scratch copy of the filter: the piece on `from` put on `to`
scratch(s, from, to) ==
    [s EXCEPT !.positions =
        [s.positions EXCEPT ![to.r][to.f] = s.positions[from.r][from.f],
                            ![from.r][from.f] = ""]]

leavesKingInCheck(s, from, type, to) ==
    isInCheck(scratch(s, from, to), colorOf(type))

getLegal(s, from, type, ignoreCheck) ==
    IF ignoreCheck THEN patternMoves(s, from, type)
    ELSE LET moves == patternMoves(s, from, type)
                      \cup (IF toLowerCase(type) = "k"
                            THEN castlingMoves(s, from.r, from.f, type) ELSE {})
         IN {to \in moves : ~leavesKingInCheck(s, from, type, to)}

(***************************************************************************)
(* getLegal, isInCheck, isAttacked as they act on the engine: the only     *)
(* assignments they make are the two of the filter, to this.positions.     *)
(***************************************************************************)
\* one pass of the filter's callback without the restoring assignment
filterStepNoRestore(s, from, to) == scratch(s, from, to)

\* one pass of the filter's callback: this.positions = copy, the check is
\* read, this.positions = tmp
filterStep(s, from, to) ==
    LET tmp == s.positions
        swapped == scratch(s, from, to)
    IN [swapped EXCEPT !.positions = tmp]

\* the engine after the filter has run over the candidate moves
RECURSIVE afterFilter(_, _, _)
afterFilter(s, from, moves) ==
    IF moves = {} THEN s
    ELSE LET to == CHOOSE m \in moves : TRUE
         IN afterFilter(filterStep(s, from, to), from, moves \ {to})

\* the engine after getLegal(from, type, ignoreCheck) has returned
afterGetLegal(s, from, type, ignoreCheck) ==
    IF ignoreCheck THEN s
    ELSE afterFilter(s, from,
                     patternMoves(s, from, type)
                     \cup (IF toLowerCase(type) = "k"
                           THEN castlingMoves(s, from.r, from.f, type) ELSE {}))

\* the engine after isInCheck(color) or isAttacked(r, f, color) has
\* returned: each piece of the scanned colour is passed to getLegal(.., true)
RECURSIVE afterCalls(_, _)
afterCalls(s, squares) ==
    IF squares = {} THEN s
    ELSE LET q == CHOOSE x \in squares : TRUE
         IN afterCalls(afterGetLegal(s, q, s.positions[q.r][q.f], TRUE),
                       squares \ {q})

afterScan(s, color) ==
    afterCalls(s, {q \in Squares : /\ s.positions[q.r][q.f] # ""
                                   /\ colorOf(s.positions[q.r][q.f]) = color})

(***************************************************************************)
(* movePiece                                                               *)
(***************************************************************************)
\* epCapture clearing rank to.r, file from.f instead
epCaptureSwapped(s, t, from, to) ==
    LET ept == s.enPassantTarget
    IN IF toLowerCase(t) = "p" /\ ept # null /\ ept.r = to.r /\ ept.f = to.f
       THEN [s.positions EXCEPT ![to.r][from.f] = ""]
       ELSE s.positions

\* the en passant capture: the pawn beside the moving pawn is taken off
epCapture(s, t, from, to) ==
    LET ept == s.enPassantTarget
    IN IF toLowerCase(t) = "p" /\ ept # null /\ ept.r = to.r /\ ept.f = to.f
       THEN [s.positions EXCEPT ![from.r][to.f] = ""]
       ELSE s.positions

\* newEnPassantTarget without the reset
newEnPassantTargetNoReset(s, t, from, to) ==
    IF toLowerCase(t) = "p" /\ Abs(to.r - from.r) = 2
    THEN Sq((from.r + to.r) \div 2, from.f)
    ELSE s.enPassantTarget

\* the en passant target is reset, then set again by a two-square pawn move
newEnPassantTarget(s, t, from, to) ==
    IF toLowerCase(t) = "p" /\ Abs(to.r - from.r) = 2
    THEN Sq((from.r + to.r) \div 2, from.f)
    ELSE null

isCastling(t, from, to) == toLowerCase(t) = "k" /\ Abs(to.f - from.f) = 2

\* the rook of a castling move, on the board b
castleRook(b, t, from, to) ==
    LET color == colorOf(t)
        homeRow == IF color = "w" THEN 7 ELSE 0
        rookChar == IF color = "w" THEN "R" ELSE "r"
    IN IF ~isCastling(t, from, to) THEN b
       ELSE IF to.f > from.f
            THEN [b EXCEPT ![homeRow][5] = rookChar, ![homeRow][7] = ""]
            ELSE [b EXCEPT ![homeRow][3] = rookChar, ![homeRow][0] = ""]

\* the moved flag of the rook of a castling move
castleRookMoved(rm, t, from, to) ==
    IF ~isCastling(t, from, to) THEN rm
    ELSE IF to.f > from.f
         THEN [rm EXCEPT ![colorOf(t)].h = TRUE]
         ELSE [rm EXCEPT ![colorOf(t)].a = TRUE]

\* updateKingMoved without the white branch
updateKingMovedBlackOnly(km, t) ==
    IF t = "k" THEN [km EXCEPT !.b = TRUE] ELSE km

\* updateKingMoved assigning both flags from the piece that moved
updateKingMovedAssigned(km, t) == [w |-> t = "K", b |-> t = "k"]

updateKingMoved(km, t) ==
    IF t = "K" THEN [km EXCEPT !.w = TRUE]
    ELSE IF t = "k" THEN [km EXCEPT !.b = TRUE]
    ELSE km

updateRookMoved(rm, t, from) ==
    IF t = "R"
    THEN [rm EXCEPT !.w.a = (@ \/ (from.r = 7 /\ from.f = 0)),
                    !.w.h = (@ \/ (from.r = 7 /\ from.f = 7))]
    ELSE IF t = "r"
         THEN [rm EXCEPT !.b.a = (@ \/ (from.r = 0 /\ from.f = 0)),
                         !.b.h = (@ \/ (from.r = 0 /\ from.f = 7))]
         ELSE rm

\* promote without the black branch
promoteWhiteOnly(b, t, to) ==
    IF t = "P" /\ to.r = 0 THEN [b EXCEPT ![to.r][to.f] = "Q"] ELSE b

promote(b, t, to) ==
    IF t = "P" /\ to.r = 0 THEN [b EXCEPT ![to.r][to.f] = "Q"]
    ELSE IF t = "p" /\ to.r = 7 THEN [b EXCEPT ![to.r][to.f] = "q"]
    ELSE b

\* movePiece up to and including the switch of turns
applyMove(s, from, to) ==
    LET t == s.positions[from.r][from.f]
        p1 == epCapture(s, t, from, to)
        p2 == [p1 EXCEPT ![to.r][to.f] = t, ![from.r][from.f] = ""]
        p3 == castleRook(p2, t, from, to)
        rm == updateRookMoved(castleRookMoved(s.rookMoved, t, from, to), t, from)
    IN [s EXCEPT !.positions = promote(p3, t, to),
                 !.enPassantTarget = newEnPassantTarget(s, t, from, to),
                 !.kingMoved = updateKingMoved(s.kingMoved, t),
                 !.rookMoved = rm,
                 !.turn = other(s.turn)]

\* some piece of the side to move has a legal move
anyMoves(s) ==
    \E r0 \in Coords, f0 \in Coords :
        LET p == s.positions[r0][f0]
        IN /\ p # ""
           /\ colorOf(p) = s.turn
           /\ getLegal(s, Sq(r0, f0), p, FALSE) # {}

\* detectGameOver with the check taken for the side that has just moved
detectGameOverForMover(s) ==
    LET inChk == isInCheck(s, other(s.turn))
        any == anyMoves(s)
    IN IF inChk /\ ~any
       THEN [s EXCEPT !.gameOver = TRUE, !.gameOverType = "checkmate",
                      !.gameOverColor = findKing(s, s.turn)]
       ELSE IF ~inChk /\ ~any
            THEN [s EXCEPT !.gameOver = TRUE, !.gameOverType = "stalemate",
                           !.gameOverColor = findKing(s, s.turn)]
            ELSE s

\* the game over detection at the end of movePiece
detectGameOver(s) ==
    LET inChk == isInCheck(s, s.turn)
        any == anyMoves(s)
    IN IF inChk /\ ~any
       THEN [s EXCEPT !.gameOver = TRUE, !.gameOverType = "checkmate",
                      !.gameOverColor = findKing(s, s.turn)]
       ELSE IF ~inChk /\ ~any
            THEN [s EXCEPT !.gameOver = TRUE, !.gameOverType = "stalemate",
                           !.gameOverColor = findKing(s, s.turn)]
            ELSE s

movePiece(s, from, to) == detectGameOver(applyMove(s, from, to))

(***************************************************************************)
(* The openings the user plays before moving freely: each is a sequence of *)
(* drags (from, to) from the initial position.                             *)
(***************************************************************************)
Mv(fr, ff, tr, tf) == [from |-> Sq(fr, ff), to |-> Sq(tr, tf)]

\* 1.f3 e5 2.g4 Qh4
FoolsMate == <<Mv(6, 5, 5, 5), Mv(1, 4, 3, 4), Mv(6, 6, 4, 6), Mv(0, 3, 4, 7)>>

\* 1.e3 a5 2.Qh5 Ra6 3.Qxa5 h5 4.h4 Rah6 5.Qxc7 f6 6.Qxd7 Kf7 7.Qxb7 Qd3
\* 8.Qxb8 Qh7 9.Qxc8 Kg6 10.Qe6
QuickStalemate ==
    <<Mv(6, 4, 5, 4), Mv(1, 0, 3, 0), Mv(7, 3, 3, 7), Mv(0, 0, 2, 0),
      Mv(3, 7, 3, 0), Mv(1, 7, 3, 7), Mv(6, 7, 4, 7), Mv(2, 0, 2, 7),
      Mv(3, 0, 1, 2), Mv(1, 5, 2, 5), Mv(1, 2, 1, 3), Mv(0, 4, 1, 5),
      Mv(1, 3, 1, 1), Mv(0, 3, 5, 3), Mv(1, 1, 0, 1), Mv(5, 3, 1, 7),
      Mv(0, 1, 0, 2), Mv(1, 5, 2, 6), Mv(0, 2, 2, 4)>>

\* 1.e4 c6 2.e5 Qa5 3.Ke2 Na6 4.Ke3 Nb8 5.Kf4 Na6 6.Kg5 d5 7.exd6
PinnedEnPassant ==
    <<Mv(6, 4, 4, 4), Mv(1, 2, 2, 2), Mv(4, 4, 3, 4), Mv(0, 3, 3, 0),
      Mv(7, 4, 6, 4), Mv(0, 1, 2, 0), Mv(6, 4, 5, 4), Mv(2, 0, 0, 1),
      Mv(5, 4, 4, 5), Mv(0, 1, 2, 0), Mv(4, 5, 3, 6), Mv(1, 3, 3, 3),
      Mv(3, 4, 2, 3)>>

\* 1.e4 Na6 2.e5 Nb8 3.Ke2 Na6 4.Ke3 Nb8 5.Ke4 d5
PawnCheck ==
    <<Mv(6, 4, 4, 4), Mv(0, 1, 2, 0), Mv(4, 4, 3, 4), Mv(2, 0, 0, 1),
      Mv(7, 4, 6, 4), Mv(0, 1, 2, 0), Mv(6, 4, 5, 4), Mv(2, 0, 0, 1),
      Mv(5, 4, 4, 4), Mv(1, 3, 3, 3)>>

\* 1.e4 d5 2.exd5 e5 3.Bc4 e4 4.Nh3 e3 5.a3 e2 6.O-O exf1
PawnOnE2 ==
    <<Mv(6, 4, 4, 4), Mv(1, 3, 3, 3), Mv(4, 4, 3, 3), Mv(1, 4, 3, 4),
      Mv(7, 5, 4, 2), Mv(3, 4, 4, 4), Mv(7, 6, 5, 7), Mv(4, 4, 5, 4),
      Mv(6, 0, 5, 0), Mv(5, 4, 6, 4), Mv(7, 4, 7, 6), Mv(6, 4, 7, 5)>>

\* 1.e4 d5 2.exd5 e5 3.Bc4 e4 4.Nh3 e3 5.a3 e2 6.O-O e1
PawnPushedToE1 == SubSeq(PawnOnE2, 1, 11) \o <<Mv(6, 4, 7, 4)>>

\* 1.e4 a6 2.e5 d5 3.exd6
EnPassant ==
    <<Mv(6, 4, 4, 4), Mv(1, 0, 2, 0), Mv(4, 4, 3, 4), Mv(1, 3, 3, 3),
      Mv(3, 4, 2, 3)>>

\* 1.h3 d5 2.h4 d4 3.e4 dxe3
BlackEnPassant ==
    <<Mv(6, 7, 5, 7), Mv(1, 3, 3, 3), Mv(5, 7, 4, 7), Mv(3, 3, 4, 3),
      Mv(6, 4, 4, 4), Mv(4, 3, 5, 4)>>

\* 1.g3 b6 2.Nh3 Bb7 3.e3 Bxh1 4.Be2 a6 5.O-O
RookTakenAtHome ==
    <<Mv(6, 6, 5, 6), Mv(1, 1, 2, 1), Mv(7, 6, 5, 7), Mv(0, 2, 1, 1),
      Mv(6, 4, 5, 4), Mv(1, 1, 7, 7), Mv(7, 5, 6, 4), Mv(1, 0, 2, 0),
      Mv(7, 4, 7, 6)>>

\* 1.e4 Na6 2.Bc4 Nb8 3.Nh3 Na6 4.O-O Nb8 5.Qe2 Na6 6.f4 Nb8 7.Rf3 Na6
CastledRookLifted ==
    <<Mv(6, 4, 4, 4), Mv(0, 1, 2, 0), Mv(7, 5, 4, 2), Mv(2, 0, 0, 1),
      Mv(7, 6, 5, 7), Mv(0, 1, 2, 0), Mv(7, 4, 7, 6), Mv(2, 0, 0, 1),
      Mv(7, 3, 6, 4), Mv(0, 1, 2, 0), Mv(6, 5, 4, 5), Mv(2, 0, 0, 1),
      Mv(7, 5, 5, 5), Mv(0, 1, 2, 0)>>

Openings ==
    {<<>>, FoolsMate, QuickStalemate, PinnedEnPassant, PawnCheck, PawnOnE2,
     PawnPushedToE1, EnPassant, BlackEnPassant, RookTakenAtHome,
     CastledRookLifted}

(***************************************************************************)
(* The state machine                                                       *)
(***************************************************************************)
SetEngine(s) ==
    /\ positions' = s.positions
    /\ kingMoved' = s.kingMoved
    /\ rookMoved' = s.rookMoved
    /\ enPassantTarget' = s.enPassantTarget
    /\ turn' = s.turn
    /\ gameOver' = s.gameOver
    /\ gameOverType' = s.gameOverType
    /\ gameOverColor' = s.gameOverColor

\* new Chess(board); chess.init()
Init ==
    /\ positions = initialState.positions
    /\ kingMoved = initialState.kingMoved
    /\ rookMoved = initialState.rookMoved
    /\ enPassantTarget = initialState.enPassantTarget
    /\ turn = initialState.turn
    /\ gameOver = initialState.gameOver
    /\ gameOverType = initialState.gameOverType
    /\ gameOverColor = initialState.gameOverColor
    /\ currentDrag = nullDrag
    /\ lastMove = nullMove
    /\ castled = [w |-> FALSE, b |-> FALSE]
    /\ script \in Openings
    /\ free = MaxFree
    /\ restarts = 0

\* startsDrag without the two early returns on gameOver and on the turn
startsDragUnguarded(s, r, f) ==
    getLegal(s, Sq(r, f), s.positions[r][f], FALSE) # {}

\* _onMouseDown on the image of the piece standing on (r, f)
startsDrag(s, r, f) ==
    LET type == s.positions[r][f]
    IN /\ ~s.gameOver
       /\ colorOf(type) = s.turn
       /\ getLegal(s, Sq(r, f), type, FALSE) # {}

OnMouseDown(r, f) ==
    /\ positions[r][f] # ""
    /\ IF script # <<>> THEN Sq(r, f) = Head(script).from
       ELSE (free > 0 /\ f \in FreeFiles) \/ gameOver
    /\ \E starts \in {startsDrag(This, r, f)} :
          IF starts
          THEN /\ currentDrag' = [from |-> Sq(r, f), type |-> positions[r][f]]
               /\ free' = IF script = <<>> THEN free - 1 ELSE free
          ELSE UNCHANGED <<currentDrag, free>>
    /\ SetEngine(IF ~gameOver /\ colorOf(positions[r][f]) = turn
                 THEN afterGetLegal(This, Sq(r, f), positions[r][f], FALSE)
                 ELSE This)
    /\ UNCHANGED <<lastMove, castled, script, restarts>>

\* _onMouseMove: only the dragged image's style changes
OnMouseMove ==
    /\ UNCHANGED vars

\* _onMouseUp calling movePiece without looking the cell up in the moves
OnMouseUpUnchecked ==
    IF currentDrag = nullDrag
    THEN UNCHANGED vars
    ELSE \E tr \in Coords, tf \in Coords :
            LET from == currentDrag.from
            IN /\ script # <<>> => Sq(tr, tf) = Head(script).to
               /\ SetEngine(movePiece(This, from, Sq(tr, tf)))
               /\ lastMove' = [from |-> from, to |-> Sq(tr, tf),
                               t |-> positions[from.r][from.f]]
               /\ UNCHANGED castled
               /\ currentDrag' = nullDrag
               /\ script' = IF script # <<>> THEN Tail(script) ELSE script
               /\ UNCHANGED <<free, restarts>>


\* _onMouseUp with the pointer over the cell (tr, tf)
OnMouseUp ==
    IF currentDrag = nullDrag
    THEN UNCHANGED vars
    ELSE \E moves \in {getLegal(This, currentDrag.from, currentDrag.type, FALSE)} :
         \E tr \in DropCoords, tf \in DropCoords :
            LET from == currentDrag.from
                after == afterGetLegal(This, from, currentDrag.type, FALSE)
            IN /\ script # <<>> => Sq(tr, tf) = Head(script).to
               /\ IF Sq(tr, tf) \in moves
                  THEN /\ SetEngine(movePiece(after, from, Sq(tr, tf)))
                       /\ lastMove' = [from |-> from, to |-> Sq(tr, tf),
                                       t |-> after.positions[from.r][from.f]]
                       /\ castled' =
                            LET t == after.positions[from.r][from.f]
                            IN IF isCastling(t, from, Sq(tr, tf))
                               THEN [castled EXCEPT ![colorOf(t)] = TRUE]
                               ELSE castled
                  ELSE /\ SetEngine(after)
                       /\ UNCHANGED <<lastMove, castled>>
               /\ currentDrag' = nullDrag
               /\ script' = IF script # <<>> THEN Tail(script) ELSE script
               /\ UNCHANGED <<free, restarts>>

\* restart() that leaves the castling rights as the game left them
restartKeepsRights(s) ==
    [s EXCEPT !.positions = initialPositions,
              !.enPassantTarget = null,
              !.turn = "w",
              !.gameOver = FALSE,
              !.gameOverType = nullType,
              !.gameOverColor = null]

\* restart(): the fields it assigns, in the order it assigns them
restart(s) ==
    [s EXCEPT !.positions = initialPositions,
              !.enPassantTarget = null,
              !.turn = "w",
              !.gameOver = FALSE,
              !.gameOverType = nullType,
              !.gameOverColor = null,
              !.kingMoved = [w |-> FALSE, b |-> FALSE],
              !.rookMoved = [w |-> [a |-> FALSE, h |-> FALSE],
                             b |-> [a |-> FALSE, h |-> FALSE]]]

\* the restart button
Restart ==
    /\ script = <<>>
    /\ restarts < MaxRestarts
    /\ SetEngine(restart(This))
    /\ lastMove' = nullMove
    /\ castled' = [w |-> FALSE, b |-> FALSE]
    /\ restarts' = restarts + 1
    /\ UNCHANGED <<currentDrag, script, free>>

Next ==
    \/ \E r \in Coords, f \in Coords : OnMouseDown(r, f)
    \/ OnMouseMove
    \/ OnMouseUp
    \/ Restart

Spec == Init /\ [][Next]_vars

(***************************************************************************)
(* Vocabulary of the properties                                            *)
(***************************************************************************)
pieceAt(q) == positions[q.r][q.f]

isPawn(p) == toLowerCase(p) = "p"

count(piece) == Cardinality({q \in Squares : pieceAt(q) = piece})

\* a move has been committed in this game, and it was a two-square advance
\* of a pawn of the given colour, which still stands where it arrived
justAdvancedTwo(color) ==
    /\ lastMove # nullMove
    /\ isPawn(lastMove.t)
    /\ colorOf(lastMove.t) = color
    /\ lastMove.from.f = lastMove.to.f
    /\ Abs(lastMove.to.r - lastMove.from.r) = 2
    /\ pieceAt(lastMove.to) = lastMove.t

\* a pawn of the side to move stands on q, beside the pawn that has just
\* advanced two squares
besideAdvancedPawn(q) ==
    /\ justAdvancedTwo(other(turn))
    /\ isPawn(pieceAt(q))
    /\ colorOf(pieceAt(q)) = turn
    /\ q.r = lastMove.to.r
    /\ Abs(q.f - lastMove.to.f) = 1

\* the piece on (i, j) attacks the square (r, f) by the rules of chess: a
\* pawn attacks the two squares diagonally ahead of it, whatever stands
\* there, and no other; the other pieces attack where they could move or capture
attacks(i, j, r, f) ==
    LET p == positions[i][j]
    IN IF isPawn(p)
       THEN r = i + (IF p = "P" THEN -1 ELSE 1) /\ Abs(f - j) = 1
       ELSE Sq(r, f) \in patternMoves(This, Sq(i, j), p)

attackedBy(color, r, f) ==
    \E i \in Coords, j \in Coords :
        positions[i][j] # "" /\ colorOf(positions[i][j]) = color /\ attacks(i, j, r, f)

(***************************************************************************)
(* C1: every destination getLegal(from, type, false) returns for a piece   *)
(* of the side to move, once committed by movePiece with all its side      *)
(* effects, leaves the mover's own king not attacked.                      *)
(***************************************************************************)
C1_LegalMoveKeepsOwnKingSafe ==
    \A q \in Squares :
        (pieceAt(q) # "" /\ colorOf(pieceAt(q)) = turn)
        => \A to \in getLegal(This, q, pieceAt(q), FALSE) :
              ~isInCheck(applyMove(This, q, to), turn)

(***************************************************************************)
(* C2: in every reachable state the board holds exactly one "K" and        *)
(* exactly one "k".                                                        *)
(***************************************************************************)
C2_ExactlyOneKingEach == count("K") = 1 /\ count("k") = 1

(***************************************************************************)
(* C3: the game is over by checkmate exactly when the side to move is in   *)
(* check and none of its pieces has a legal move, by stalemate exactly     *)
(* when it is not in check and has no legal move, and otherwise it is not  *)
(* over: while gameOver is false the side to move has a legal move.        *)
(***************************************************************************)
C3_GameOverIffNoLegalMove ==
    LET inChk == isInCheck(This, turn)
        any == anyMoves(This)
    IN /\ gameOverType = "checkmate" <=> (inChk /\ ~any)
       /\ gameOverType = "stalemate" <=> (~inChk /\ ~any)
       /\ gameOver <=> ~any
       /\ gameOver <=> gameOverType # nullType

C3_StalemateDeclared ==
    /\ gameOver /\ gameOverType = "stalemate"
    /\ lastMove # nullMove
    /\ ~isInCheck(This, turn)

(***************************************************************************)
(* C4: when the side to move is in check from a pawn that has just         *)
(* advanced two squares and one of its pawns can capture that pawn en      *)
(* passant, leaving its king unattacked once the capture is fully applied, *)
(* the game is not declared checkmate and the en passant destination is    *)
(* among the legal moves of the capturing pawn.                            *)
(***************************************************************************)
C4_EnPassantAnswersPawnCheck ==
    \A q \in Squares :
        (/\ enPassantTarget # null
         /\ besideAdvancedPawn(q)
         /\ attacks(lastMove.to.r, lastMove.to.f,
                    findKing(This, turn).r, findKing(This, turn).f)
         /\ ~isInCheck(applyMove(This, q, enPassantTarget), turn))
        => /\ gameOverType # "checkmate"
           /\ enPassantTarget \in getLegal(This, q, pieceAt(q), FALSE)

(***************************************************************************)
(* C5: once gameOver is true no mouse-down, mouse-move or mouse-up changes *)
(* positions, turn, enPassantTarget, kingMoved, rookMoved or the game over *)
(* fields: only restart() changes the engine state again.                  *)
(***************************************************************************)
C5_GameOverFreezesEngine ==
    [][gameOver => (Restart \/ UNCHANGED engine)]_vars

C5_EventsAfterCheckmate ==
    /\ gameOver /\ gameOverType = "checkmate"
    /\ ENABLED (\E r \in Coords, f \in Coords : OnMouseDown(r, f))
    /\ ENABLED OnMouseMove
    /\ ENABLED OnMouseUp

(***************************************************************************)
(* C6: for the white king on e1 (rank 7, file 4) the castling destination  *)
(* g1 (rank 7, file 6) is in getLegal(e1, "K", false) if and only if the   *)
(* king and the h-file rook have not moved, f1 and g1 are empty, and none  *)
(* of e1, f1, g1 is attacked by a black piece, a black pawn attacking the  *)
(* squares diagonally ahead of it.                                         *)
(***************************************************************************)
C6_WhiteKingsideCastlingIff ==
    positions[7][4] = "K" =>
        (Sq(7, 6) \in getLegal(This, Sq(7, 4), "K", FALSE)
         <=> /\ ~kingMoved.w
             /\ ~rookMoved.w.h
             /\ positions[7][5] = "" /\ positions[7][6] = ""
             /\ \A f \in {4, 5, 6} : ~attackedBy("b", 7, f))

(***************************************************************************)
(* C7: between two restarts each of the six moved flags only ever changes  *)
(* from false to true.                                                     *)
(***************************************************************************)
C7_MovedFlagsMonotone ==
    [][Restart \/ (/\ kingMoved.w => kingMoved'.w
                   /\ kingMoved.b => kingMoved'.b
                   /\ rookMoved.w.a => rookMoved'.w.a
                   /\ rookMoved.w.h => rookMoved'.w.h
                   /\ rookMoved.b.a => rookMoved'.b.a
                   /\ rookMoved.b.h => rookMoved'.b.h)]_vars

C7_FlagKeptOverLaterMove ==
    /\ kingMoved.w /\ rookMoved.w.h
    /\ lastMove # nullMove /\ colorOf(lastMove.t) = "b"

(***************************************************************************)
(* C8: after every movePiece(from, to) enPassantTarget is non-null exactly *)
(* when the piece moved was a pawn that went two ranks, and then it is the *)
(* square (rank (from.r + to.r) / 2, file from.f).                         *)
(***************************************************************************)
C8_TargetIffTwoSquarePawnMove ==
    lastMove # nullMove =>
        LET two == isPawn(lastMove.t) /\ Abs(lastMove.to.r - lastMove.from.r) = 2
        IN /\ enPassantTarget # null <=> two
           /\ two => enPassantTarget =
                         Sq((lastMove.from.r + lastMove.to.r) \div 2, lastMove.from.f)

C8_TargetSetByTwoSquareMove ==
    /\ lastMove = [from |-> Sq(6, 4), to |-> Sq(4, 4), t |-> "P"]
    /\ enPassantTarget = Sq(5, 4)

(***************************************************************************)
(* C9: a pawn of the side to move that stands beside an enemy pawn that    *)
(* has just advanced two squares is offered the skipped square as a        *)
(* candidate destination; committing that move takes exactly the pawn that *)
(* just advanced (the piece on rank from.r, file to.f) off the board, puts *)
(* the capturing pawn on the target square and removes no other piece.     *)
(***************************************************************************)
C9_EnPassantOffered ==
    \A q \in Squares :
        besideAdvancedPawn(q) =>
            /\ enPassantTarget # null
            /\ enPassantTarget \in getLegal(This, q, pieceAt(q), TRUE)

C9_EnPassantCommitted ==
    /\ lastMove' # lastMove
    /\ lastMove' # nullMove
    /\ besideAdvancedPawn(lastMove'.from)
    /\ lastMove'.to = enPassantTarget

C9_EnPassantCapture ==
    [][/\ C9_EnPassantOffered'
       /\ C9_EnPassantCommitted =>
            LET from == lastMove'.from
                to == lastMove'.to
            IN /\ positions[from.r][to.f] = lastMove.t
               /\ Sq(from.r, to.f) = lastMove.to
               /\ positions[to.r][to.f] = ""
               /\ positions' = [positions EXCEPT ![from.r][from.f] = "",
                                                 ![from.r][to.f] = "",
                                                 ![to.r][to.f] = lastMove'.t]]_vars

C9_CapturedEnPassant ==
    /\ lastMove.t = "P"
    /\ lastMove.from = Sq(3, 4) /\ lastMove.to = Sq(2, 3)
    /\ positions[2][3] = "P" /\ positions[3][3] = "" /\ positions[3][4] = ""
    /\ count("p") = 7 /\ count("P") = 8

(***************************************************************************)
(* C10: no white pawn stands on rank 0 and no black pawn on rank 7: a pawn *)
(* that moves onto its farthest rank, by a push or by a capture, is        *)
(* replaced there by a queen of its colour within the same movePiece.      *)
(***************************************************************************)
C10_PawnPromotedOnFarthestRank ==
    /\ \A f \in Coords : positions[0][f] # "P" /\ positions[7][f] # "p"
    /\ (lastMove.t = "P" /\ lastMove.to.r = 0) => pieceAt(lastMove.to) = "Q"
    /\ (lastMove.t = "p" /\ lastMove.to.r = 7) => pieceAt(lastMove.to) = "q"

C10_PromotedByCapture ==
    /\ lastMove.t = "p" /\ lastMove.to.r = 7
    /\ lastMove.from.f # lastMove.to.f
    /\ pieceAt(lastMove.to) = "q"

(***************************************************************************)
(* C11: restart(), from whatever state it is called in, leaves the engine  *)
(* in exactly the state the constructor built: the standard starting grid, *)
(* white to move, every moved flag false, no en passant target and no game *)
(* over; a second restart gives the same state as the first.               *)
(***************************************************************************)
C11_RestartYieldsInitialState ==
    [][restarts' # restarts => This' = initialState]_vars

\* restart() has run on a board that a game had changed, and then once
\* more: the drag that was in progress holds a piece that does not start on
\* that square
C11_RestartedFromChangedBoard ==
    /\ restarts > 1 /\ lastMove = nullMove
    /\ This = initialState
    /\ currentDrag # nullDrag
    /\ initialPositions[currentDrag.from.r][currentDrag.from.f] # currentDrag.type

(***************************************************************************)
(* C12: in the standard starting position with white to move the white     *)
(* pieces have exactly 20 destinations in getLegal(square, piece, false),  *)
(* 16 of pawns and 4 of knights, and no press on a black piece starts a    *)
(* drag: no move is generated for black before its turn.                   *)
(***************************************************************************)
movesOf(color, kinds) ==
    UNION {{<<q, to>> : to \in getLegal(This, q, pieceAt(q), FALSE)} :
              q \in {x \in Squares : /\ pieceAt(x) # ""
                                     /\ colorOf(pieceAt(x)) = color
                                     /\ toLowerCase(pieceAt(x)) \in kinds}}

C13_DropCommitsAllOrNothing ==
    [][(currentDrag # nullDrag /\ currentDrag' = nullDrag) =>
          \/ UNCHANGED <<engine, lastMove>>
          \/ \E to \in getLegal(This, currentDrag.from, currentDrag.type, FALSE) :
                /\ This' = movePiece(This, currentDrag.from, to)
                /\ lastMove'.from = currentDrag.from /\ lastMove'.to = to]_vars

\* a drag in the starting position has ended on a cell that was not a
\* legal destination: nothing was committed
C13_DropRejected ==
    /\ script = <<>> /\ free < MaxFree /\ restarts = 0
    /\ currentDrag = nullDrag
    /\ lastMove = nullMove
    /\ This = initialState

(***************************************************************************)
(* C14: under every interleaving of mouse-down, mouse-up and restart, each *)
(* movePiece(from, to) the handlers call finds a piece on `from`, of the   *)
(* colour whose turn it is, with `to` among getLegal(from, that piece,     *)
(* false); consecutive committed moves are made by opposite colours.       *)
(***************************************************************************)
C14_Committed ==
    /\ currentDrag # nullDrag /\ currentDrag' = nullDrag
    /\ turn' # turn

C14_MovePiecePrecondition ==
    [][C14_Committed =>
          LET from == currentDrag.from
              p == positions[from.r][from.f]
          IN /\ p # ""
             /\ colorOf(p) = turn
             /\ lastMove'.to \in getLegal(This, from, p, FALSE)
             /\ (lastMove # nullMove /\ lastMove.t # "")
                    => colorOf(lastMove.t) # colorOf(p)]_vars

(***************************************************************************)
(* C15: getLegal(from, type, ignoreCheck), for both values of ignoreCheck, *)
(* isInCheck(color) and isAttacked(r, f, color) return with positions,     *)
(* turn, enPassantTarget, kingMoved, rookMoved and the game over fields as *)
(* they were at the call, for every piece on the board and either colour;  *)
(* so a mouse-down, which calls nothing else, leaves them unchanged.       *)
(***************************************************************************)
C15_QueriesRestoreEngine ==
    /\ \A q \in Squares : \A ignoreCheck \in BOOLEAN :
          pieceAt(q) # "" => afterGetLegal(This, q, pieceAt(q), ignoreCheck) = This
    /\ \A color \in {"w", "b"} : afterScan(This, color) = This

C15_MouseDownKeepsEngine ==
    [][(currentDrag = nullDrag /\ currentDrag' # nullDrag) => UNCHANGED engine]_vars

\* getLegal has filtered the moves of a king that could castle, and the
\* board is as it was
C15_FilteredCastlingKing ==
    /\ currentDrag = [from |-> Sq(7, 4), type |-> "K"]
    /\ positions[7][4] = "K"
    /\ Sq(7, 6) \in getLegal(This, Sq(7, 4), "K", FALSE)
    /\ afterGetLegal(This, Sq(7, 4), "K", FALSE) = This

(***************************************************************************)
(* C16: for either colour and either wing, the square two files from the   *)
(* king toward the rook is not in getLegal(kingSquare, king, false) when   *)
(* the king is in check, or when the square the king crosses or the square *)
(* it lands on is attacked by an enemy piece, an enemy pawn attacking the  *)
(* two squares diagonally ahead of it and not the square straight ahead.   *)
(***************************************************************************)
C16_NoCastlingThroughAttack ==
    \A k \in Squares : \A d \in {-1, 1} :
        (/\ toLowerCase(pieceAt(k)) = "k"
         /\ inB(k.r, k.f + 2 * d)
         /\ Sq(k.r, k.f + 2 * d) \in getLegal(This, k, pieceAt(k), FALSE))
        => LET enemy == other(colorOf(pieceAt(k)))
           IN /\ ~attackedBy(enemy, k.r, k.f)
              /\ ~attackedBy(enemy, k.r, k.f + d)
              /\ ~attackedBy(enemy, k.r, k.f + 2 * d)

(***************************************************************************)
(* C17: when movePiece moves a king two files, the rook of the king's      *)
(* colour stands on the corner of that wing on the king's home row (file 7 *)
(* kingside, file 0 queenside) and is moved from there to the square the   *)
(* king skipped (file 5 kingside, file 3 queenside); the king's and that   *)
(* rook's moved flags are true afterwards and every other square keeps its *)
(* content.                                                                *)
(***************************************************************************)
C17_CastlingMovesRook ==
    [][(C14_Committed /\ isCastling(positions[currentDrag.from.r][currentDrag.from.f],
                                    currentDrag.from, lastMove'.to)) =>
          LET from == currentDrag.from
              to == lastMove'.to
              king == positions[from.r][from.f]
              color == colorOf(king)
              homeRow == IF color = "w" THEN 7 ELSE 0
              rookChar == IF color = "w" THEN "R" ELSE "r"
              kingside == to.f > from.f
              corner == IF kingside THEN 7 ELSE 0
              skipped == IF kingside THEN 5 ELSE 3
          IN /\ from.r = homeRow /\ to.r = homeRow
             /\ (from.f + to.f) \div 2 = skipped
             /\ positions[homeRow][corner] = rookChar
             /\ positions' = [positions EXCEPT ![from.r][from.f] = "",
                                               ![to.r][to.f] = king,
                                               ![homeRow][corner] = "",
                                               ![homeRow][skipped] = rookChar]
             /\ kingMoved'[color]
             /\ IF kingside THEN rookMoved'[color].h ELSE rookMoved'[color].a]_vars

(***************************************************************************)
(* C18: between two restarts each colour castles at most once: once a king *)
(* has made a two-file castling move, getLegal returns no destination two  *)
(* files from the square of that colour's king, on either wing, in any     *)
(* later state of the game.                                                *)
(***************************************************************************)
C18_CastlesAtMostOnce ==
    \A k \in Squares :
        (/\ toLowerCase(pieceAt(k)) = "k"
         /\ castled[colorOf(pieceAt(k))])
        => \A to \in getLegal(This, k, pieceAt(k), FALSE) : Abs(to.f - k.f) < 2

\* white has castled, its rook has since left f1 and the squares between
\* the king on g1 and the unmoved rook on a1 that castling looks at are empty
C18_CastledKingBesideEmptySquares ==
    /\ castled.w /\ turn = "w"
    /\ positions[7][6] = "K" /\ positions[7][0] = "R"
    /\ positions[7][5] = "" /\ positions[7][4] = "" /\ positions[7][3] = ""
    /\ ~rookMoved.w.a
    /\ ~isInCheck(This, "w")
    /\ getLegal(This, Sq(7, 6), "K", FALSE) # {}

(***************************************************************************)
(* C19: for every piece on the board, of either colour, and both values of *)
(* ignoreCheck, every destination getLegal returns is on the board, is not *)
(* the origin square, and is empty or holds a piece of the other colour;   *)
(* a destination of a bishop, rook or queen has only empty squares between *)
(* it and the origin, so none lies beyond the first occupied square.       *)
(***************************************************************************)
Sign(n) == IF n > 0 THEN 1 ELSE IF n < 0 THEN -1 ELSE 0

\* the squares strictly between q and to, which share a rank, a file or a
\* diagonal
between(q, to) ==
    LET n == IF Abs(to.r - q.r) > Abs(to.f - q.f)
             THEN Abs(to.r - q.r) ELSE Abs(to.f - q.f)
    IN {Sq(q.r + i * Sign(to.r - q.r), q.f + i * Sign(to.f - q.f)) : i \in 1..(n - 1)}

C19_DestinationsWellFormed ==
    \A q \in Squares : \A ignoreCheck \in BOOLEAN :
        pieceAt(q) # "" =>
            \A to \in getLegal(This, q, pieceAt(q), ignoreCheck) :
                /\ to.r \in 0..7 /\ to.f \in 0..7
                /\ to # q
                /\ pieceAt(to) = "" \/ colorOf(pieceAt(to)) # colorOf(pieceAt(q))
                /\ toLowerCase(pieceAt(q)) \in {"b", "r", "q"} =>
                      /\ (to.r = q.r \/ to.f = q.f
                          \/ Abs(to.r - q.r) = Abs(to.f - q.f))
                      /\ \A x \in between(q, to) : pieceAt(x) = ""

\* the white queen picked up on h5: it may take the pawn on h7 and its
\* destinations end there, short of the rook on h8
C19_QueenStopsAtFirstPiece ==
    /\ currentDrag = [from |-> Sq(3, 7), type |-> "Q"]
    /\ pieceAt(Sq(3, 7)) = "Q" /\ pieceAt(Sq(1, 7)) = "p" /\ pieceAt(Sq(0, 7)) = "r"
    /\ Sq(1, 7) \in getLegal(This, Sq(3, 7), "Q", FALSE)
    /\ Sq(0, 7) \notin getLegal(This, Sq(3, 7), "Q", TRUE)

(***************************************************************************)
(* C20: no committed move increases the number of pieces of either colour  *)
(* on the board, and a castling destination is offered to a king only      *)
(* while a rook of its colour stands on the corner of that wing: castling  *)
(* after that rook was captured on its home square is not possible and     *)
(* makes no new rook appear on file 5 or file 3.                           *)
(***************************************************************************)
piecesOf(b, color) ==
    Cardinality({q \in Squares : b[q.r][q.f] # "" /\ colorOf(b[q.r][q.f]) = color})

C20_CastlingNeedsRook ==
    \A k \in Squares : \A d \in {-1, 1} :
        (/\ toLowerCase(pieceAt(k)) = "k"
         /\ inB(k.r, k.f + 2 * d)
         /\ Sq(k.r, k.f + 2 * d) \in getLegal(This, k, pieceAt(k), FALSE))
        => positions[k.r][IF d = 1 THEN 7 ELSE 0] = (IF pieceAt(k) = "K" THEN "R" ELSE "r")

C20_NoPieceAppears ==
    [][C14_Committed =>
          /\ C20_CastlingNeedsRook
          /\ piecesOf(positions', "w") <= piecesOf(positions, "w")
          /\ piecesOf(positions', "b") <= piecesOf(positions, "b")]_vars

====
